---- MODULE Spec2Model ----
(***************************************************************************)
(* The retry / circuit-breaker utility of the podcast backend              *)
(* (gen-ai-playgrounds/amazon_bedrock/demos/podcast/main.py, lines         *)
(* 203-282): class CircuitBreaker and the coroutine retry_with_backoff,    *)
(* run by concurrent request handlers on one asyncio event loop.           *)
(*                                                                         *)
(* A step of the model is one run of a coroutine between two of its        *)
(* suspension points (await func(), await asyncio.sleep(delay)), which is  *)
(* what the event loop executes without interleaving.                      *)
(*                                                                         *)
(* The code reads the clock in two places only: can_execute compares       *)
(* datetime.now() - last_failure_time with recovery_timeout, and           *)
(* asyncio.sleep(delay) ends once `delay` has passed.  The model keeps     *)
(* these two durations instead of the absolute clock:                      *)
(*   since_failure = datetime.now() - last_failure_time  (per breaker),    *)
(*   sleep_left    = time left of the running asyncio.sleep (per call).    *)
(* Tick lets one clock unit pass.  since_failure stops counting at         *)
(* recovery_timeout + 1: the code only asks whether it exceeds             *)
(* recovery_timeout.                                                       *)
(***************************************************************************)
EXTENDS Integers, Sequences, FiniteSets, TLC

(* ---------------------------- bounds ----------------------------------- *)
MaxRetries == 3        \* max_retries is drawn from 0..MaxRetries
MaxThreshold == 3      \* failure_threshold is drawn from 1..MaxThreshold
RecoveryTimeout == 2   \* recovery_timeout of the breakers, in clock units
MaxCount == 5                      \* failures recorded on a bare breaker

\* Two requests whose retry_with_backoff calls run concurrently on the loop.
Calls == {"req1", "req2"}
Breakers == {"bedrock_circuit_breaker"}
AllBreakers == {"bedrock_circuit_breaker", "polly_circuit_breaker"}
\* a bad request (permanent) and an unavailable service (transient)
ErrorKinds == {"ValidationException", "ServiceUnavailableException"}
None == "None"                     \* circuit_breaker=None, the default
BaseDelays == {1, 2}               \* base_delay
BackoffFactors == {2, 3}           \* backoff_factor (default 2.0)
MaxDelays == {5}                   \* max_delay
Never == -1                        \* last_failure_time = None

VARIABLES
    cb,        \* cb[b]: the fields of CircuitBreaker instance b
    policy,    \* the arguments the handlers pass to retry_with_backoff
    call,      \* call[c]: the frame of the c-th retry_with_backoff call
    last_op,   \* history: the breaker method run by the latest step
    streak,    \* history: record_failure() calls on b since the latest
               \* record_success() on b (or since construction)
    http       \* an HTTP handler's except clause, run on two exceptions

vars == <<cb, policy, call, last_op, streak, http>>

(* ------------------------- CircuitBreaker ------------------------------ *)
\* __init__
CircuitBreaker(failure_threshold, recovery_timeout) ==
    [failure_threshold |-> failure_threshold,
     recovery_timeout  |-> recovery_timeout,
     failure_count     |-> 0,
     since_failure     |-> Never,
     state             |-> "CLOSED"]

\* can_execute comparing the elapsed time with >= (admits at the boundary)
can_execute_ge(self) ==
    IF self.state = "CLOSED" THEN [ret |-> TRUE, self |-> self]
    ELSE IF self.state = "OPEN" THEN
        IF self.since_failure # Never
           /\ self.since_failure >= self.recovery_timeout
        THEN [ret |-> TRUE, self |-> [self EXCEPT !.state = "HALF_OPEN"]]
        ELSE [ret |-> FALSE, self |-> self]
    ELSE [ret |-> TRUE, self |-> self]

\* can_execute without the lazy transition: OPEN rejects for ever
can_execute_no_recovery(self) ==
    IF self.state = "CLOSED" THEN [ret |-> TRUE, self |-> self]
    ELSE IF self.state = "OPEN" THEN [ret |-> FALSE, self |-> self]
    ELSE [ret |-> TRUE, self |-> self]

\* can_execute that forgives the recorded failures when it half-opens
can_execute_clears_count(self) ==
    IF self.state = "CLOSED" THEN [ret |-> TRUE, self |-> self]
    ELSE IF self.state = "OPEN" THEN
        IF self.since_failure # Never
           /\ self.since_failure > self.recovery_timeout
        THEN [ret |-> TRUE, self |-> [self EXCEPT !.state = "HALF_OPEN",
                                                  !.failure_count = 0]]
        ELSE [ret |-> FALSE, self |-> self]
    ELSE [ret |-> TRUE, self |-> self]

\* can_execute: the value returned and the breaker afterwards
can_execute(self) ==
    IF self.state = "CLOSED" THEN [ret |-> TRUE, self |-> self]
    ELSE IF self.state = "OPEN" THEN
        IF self.since_failure # Never
           /\ self.since_failure > self.recovery_timeout
        THEN [ret |-> TRUE, self |-> [self EXCEPT !.state = "HALF_OPEN"]]
        ELSE [ret |-> FALSE, self |-> self]
    ELSE [ret |-> TRUE, self |-> self]

\* record_success that forgets to close the circuit
record_success_count_only(self) ==
    [self EXCEPT !.failure_count = 0]

\* record_success that forgets to reset the count
record_success_state_only(self) ==
    [self EXCEPT !.state = "CLOSED"]

record_success(self) ==
    [self EXCEPT !.failure_count = 0, !.state = "CLOSED"]

\* record_failure comparing with > (trips one failure late)
record_failure_gt(self) ==
    LET s1 == [self EXCEPT !.failure_count = @ + 1,
                           !.since_failure = 0]
    IN  IF s1.failure_count > s1.failure_threshold
        THEN [s1 EXCEPT !.state = "OPEN"]
        ELSE s1

\* record_failure comparing with == (trips only on the exact count)
record_failure_eq(self) ==
    LET s1 == [self EXCEPT !.failure_count = @ + 1,
                           !.since_failure = 0]
    IN  IF s1.failure_count = s1.failure_threshold
        THEN [s1 EXCEPT !.state = "OPEN"]
        ELSE s1

\* record_failure that ignores failures of a breaker that is already OPEN
record_failure_skip_open(self) ==
    IF self.state = "OPEN" THEN self
    ELSE LET s1 == [self EXCEPT !.failure_count = @ + 1,
                                !.since_failure = 0]
         IN  IF s1.failure_count >= s1.failure_threshold
             THEN [s1 EXCEPT !.state = "OPEN"]
             ELSE s1

record_failure(self) ==
    LET s1 == [self EXCEPT !.failure_count = @ + 1,
                           !.since_failure = 0]
    IN  IF s1.failure_count >= s1.failure_threshold
        THEN [s1 EXCEPT !.state = "OPEN"]
        ELSE s1

\* a breaker with a timer: it half-opens by itself when the timeout is over
Age_timer(self) ==
    IF self.since_failure = Never \/ self.since_failure > self.recovery_timeout
    THEN self
    ELSE IF self.state = "OPEN"
            /\ self.since_failure + 1 > self.recovery_timeout
         THEN [self EXCEPT !.since_failure = @ + 1, !.state = "HALF_OPEN"]
         ELSE [self EXCEPT !.since_failure = @ + 1]

\* one clock unit passes for a breaker
Age(self) ==
    IF self.since_failure = Never \/ self.since_failure > self.recovery_timeout
    THEN self
    ELSE [self EXCEPT !.since_failure = @ + 1]

(* ------------------------ retry_with_backoff --------------------------- *)
RECURSIVE Pow(_, _)
Pow(b, e) == IF e = 0 THEN 1 ELSE b * Pow(b, e - 1)

Min(a, b) == IF a <= b THEN a ELSE b

\* the delay computed from the one-based attempt number
Delay_one_based(base_delay, backoff_factor, attempt, max_delay) ==
    Min(base_delay * Pow(backoff_factor, attempt + 1), max_delay)

\* delay = min(base_delay * (backoff_factor ** attempt), max_delay)
Delay(base_delay, backoff_factor, attempt, max_delay) ==
    Min(base_delay * Pow(backoff_factor, attempt), max_delay)

NoException == [kind |-> "none", attempt |-> -1]
CircuitOpen == [kind |-> "circuit_open", attempt |-> -1]
\* asyncio.CancelledError, thrown into the coroutine at its await
Cancelled == [kind |-> "cancelled", attempt |-> -1]
\* `raise last_exception` with last_exception = None: a TypeError
RaiseNone == [kind |-> "type_error", attempt |-> -1]
\* the exception of class `error` raised by the invocation with index
\* `attempt`
Raises(error, attempt) ==
    [kind |-> "operation", attempt |-> attempt, error |-> error]

\* the same when func raises errors of one class only
OperationError(attempt) == Raises("Exception", attempt)

NoOp == [name |-> "none", c |-> "none", b |-> None, ret |-> TRUE,
         pre |-> CircuitBreaker(0, 0)]

Op(name, c, b, ret, pre) ==
    [name |-> name, c |-> c, b |-> b, ret |-> ret, pre |-> pre]

\* `result` before func has returned
NoResult == -1

IdleCall ==
    [pc |-> "idle", circuit_breaker |-> None, max_retries |-> 0,
     attempt |-> 0, invoked |-> <<>>, delays |-> <<>>,
     last_exception |-> NoException, exc |-> NoException,
     sleep_left |-> 0, result |-> NoResult]

\* no handler has caught an exception yet
NoRequest ==
    [pc |-> "idle", handler |-> "none", now |-> "none", e |-> <<>>,
     response |-> <<>>]

\* The state after import, for handlers that pass max_retries (and, some of
\* them, a value of `others` instead).
InitWith(others, breakers, errors) ==
    /\ \E n \in 1..MaxThreshold :
          cb = [b \in breakers |-> CircuitBreaker(n, RecoveryTimeout)]
    /\ \E m \in 0..MaxRetries, bd \in BaseDelays, bf \in BackoffFactors,
          md \in MaxDelays :
          policy = [max_retries |-> m, base_delay |-> bd,
                    backoff_factor |-> bf, max_delay |-> md,
                    others |-> others, errors |-> errors]
    /\ call = [c \in Calls |-> IdleCall]
    /\ last_op = NoOp
    /\ streak = [b \in breakers |-> 0]
    /\ http = NoRequest

\* every call is given max_retries >= 0
Init == InitWith({}, Breakers, {"Exception"})

\* some calls may be given max_retries = -1
InitAnyRetries == InitWith({-1}, Breakers, {"Exception"})

\* both module-level breakers are in use
InitTwoBreakers == InitWith({}, AllBreakers, {"Exception"})

\* func raises a permanent or a transient error, as it likes
InitErrorKinds == InitWith({}, Breakers, ErrorKinds)

\* an entry that never consults the breaker
Admitted_unchecked(b) == TRUE

\* not (circuit_breaker and not circuit_breaker.can_execute())
Admitted(b) == b = None \/ can_execute(cb[b]).ret

\* a loop over range(max_retries): one attempt short
LastAttempt_short(attempt, max_retries) == attempt >= max_retries - 1

\* a loop that stops one attempt late
LastAttempt_late(attempt, max_retries) == attempt = max_retries + 1

\* attempt == max_retries
LastAttempt(attempt, max_retries) == attempt = max_retries

\* an entry that cannot run while some call sleeps (a sleep that blocks the
\* event loop)
Enter_blocked(c) ==
    /\ call[c].pc = "idle"
    /\ \A d \in Calls : call[d].pc # "sleeping"
    /\ \E b \in DOMAIN cb \cup {None},
          m \in {policy.max_retries} \cup policy.others :
        LET frame == [call[c] EXCEPT !.circuit_breaker = b,
                                     !.max_retries = m]
            chk == can_execute(cb[b])
        IN  IF ~Admitted(b)
            THEN /\ call' = [call EXCEPT ![c] =
                        [frame EXCEPT !.pc = "raised", !.exc = CircuitOpen]]
                 /\ cb' = [cb EXCEPT ![b] = chk.self]
                 /\ last_op' = Op("can_execute", c, b, FALSE, cb[b])
            ELSE /\ call' = [call EXCEPT ![c] =
                        IF m + 1 <= 0
                        THEN \* range(max_retries + 1) is empty
                             [frame EXCEPT !.pc = "raised", !.exc = RaiseNone]
                        ELSE [frame EXCEPT !.pc = "calling", !.attempt = 0,
                                           !.invoked = <<0>>]]
                 /\ IF b # None
                    THEN /\ cb' = [cb EXCEPT ![b] = chk.self]
                         /\ last_op' = Op("can_execute", c, b, TRUE, cb[b])
                    ELSE /\ cb' = cb
                         /\ last_op' = NoOp
    /\ UNCHANGED <<policy, streak, http>>

\* Entry of retry_with_backoff up to its first suspension: the admission
\* check, and for an admitted call the invocation of func for attempt 0.
Enter(c) ==
    /\ call[c].pc = "idle"
    /\ \E b \in DOMAIN cb \cup {None},
          m \in {policy.max_retries} \cup policy.others :
        LET frame == [call[c] EXCEPT !.circuit_breaker = b,
                                     !.max_retries = m]
            chk == can_execute(cb[b])
        IN  IF ~Admitted(b)
            THEN /\ call' = [call EXCEPT ![c] =
                        [frame EXCEPT !.pc = "raised", !.exc = CircuitOpen]]
                 /\ cb' = [cb EXCEPT ![b] = chk.self]
                 /\ last_op' = Op("can_execute", c, b, FALSE, cb[b])
            ELSE /\ call' = [call EXCEPT ![c] =
                        IF m + 1 <= 0
                        THEN \* range(max_retries + 1) is empty
                             [frame EXCEPT !.pc = "raised", !.exc = RaiseNone]
                        ELSE [frame EXCEPT !.pc = "calling", !.attempt = 0,
                                           !.invoked = <<0>>]]
                 /\ IF b # None
                    THEN /\ cb' = [cb EXCEPT ![b] = chk.self]
                         /\ last_op' = Op("can_execute", c, b, TRUE, cb[b])
                    ELSE /\ cb' = cb
                         /\ last_op' = NoOp
    /\ UNCHANGED <<policy, streak, http>>

\* a success path that records the success only on the first attempt
OperationReturns_first_only(c) ==
    /\ call[c].pc = "calling"
    /\ LET b == call[c].circuit_breaker IN
        /\ call' = [call EXCEPT ![c].pc = "returned",
                                ![c].result = call[c].attempt]
        /\ IF b # None /\ call[c].attempt = 0
           THEN /\ cb' = [cb EXCEPT ![b] = record_success(cb[b])]
                /\ last_op' = Op("record_success", c, b, TRUE, cb[b])
                /\ streak' = [streak EXCEPT ![b] = 0]
           ELSE /\ cb' = cb
                /\ last_op' = NoOp
                /\ streak' = streak
    /\ UNCHANGED <<policy, http>>

\* a success path without its `return result`: the loop goes on
OperationReturns_goes_on(c) ==
    /\ call[c].pc = "calling"
    /\ LET b == call[c].circuit_breaker IN
        /\ call' = [call EXCEPT ![c] =
               IF call[c].attempt = call[c].max_retries
               THEN [call[c] EXCEPT !.pc = "returned",
                                    !.result = call[c].attempt]
               ELSE [call[c] EXCEPT
                       !.result = call[c].attempt,
                       !.attempt = @ + 1,
                       !.invoked = Append(@, call[c].attempt + 1)]]
        /\ IF b # None
           THEN /\ cb' = [cb EXCEPT ![b] = record_success(cb[b])]
                /\ last_op' = Op("record_success", c, b, TRUE, cb[b])
                /\ streak' = [streak EXCEPT ![b] = 0]
           ELSE /\ cb' = cb
                /\ last_op' = NoOp
                /\ streak' = streak
    /\ UNCHANGED <<policy, http>>

\* func() returns: record_success and return the result (the result of the
\* invocation with index k is written k).
OperationReturns(c) ==
    /\ call[c].pc = "calling"
    /\ LET b == call[c].circuit_breaker IN
        /\ call' = [call EXCEPT ![c].pc = "returned",
                                ![c].result = call[c].attempt]
        /\ IF b # None
           THEN /\ cb' = [cb EXCEPT ![b] = record_success(cb[b])]
                /\ last_op' = Op("record_success", c, b, TRUE, cb[b])
                /\ streak' = [streak EXCEPT ![b] = 0]
           ELSE /\ cb' = cb
                /\ last_op' = NoOp
                /\ streak' = streak
    /\ UNCHANGED <<policy, http>>

\* an except clause that records the failure on every breaker of the module
OperationRaises_shared(c) ==
    /\ call[c].pc = "calling"
    /\ LET b == call[c].circuit_breaker
           f == [call[c] EXCEPT
                    !.last_exception = OperationError(call[c].attempt)]
           delay == Delay(policy.base_delay, policy.backoff_factor,
                          f.attempt, policy.max_delay)
       IN
        /\ IF b # None
           THEN /\ cb' = [x \in DOMAIN cb |-> record_failure(cb[x])]
                /\ last_op' = Op("record_failure", c, b, TRUE, cb[b])
                /\ streak' = [streak EXCEPT ![b] = @ + 1]
           ELSE /\ cb' = cb
                /\ last_op' = NoOp
                /\ streak' = streak
        /\ IF LastAttempt(f.attempt, f.max_retries)
           THEN call' = [call EXCEPT ![c] =
                    [f EXCEPT !.pc = "raised", !.exc = f.last_exception]]
           ELSE call' = [call EXCEPT ![c] =
                    [f EXCEPT !.pc = "sleeping",
                              !.delays = Append(@, delay),
                              !.sleep_left = delay]]
    /\ UNCHANGED <<policy, http>>

\* an except clause that records only the failure of the final attempt
OperationRaises_final_only(c) ==
    /\ call[c].pc = "calling"
    /\ LET b == call[c].circuit_breaker
           f == [call[c] EXCEPT
                    !.last_exception = OperationError(call[c].attempt)]
           delay == Delay(policy.base_delay, policy.backoff_factor,
                          f.attempt, policy.max_delay)
       IN
        /\ IF b # None /\ LastAttempt(f.attempt, f.max_retries)
           THEN /\ cb' = [cb EXCEPT ![b] = record_failure(cb[b])]
                /\ last_op' = Op("record_failure", c, b, TRUE, cb[b])
                /\ streak' = [streak EXCEPT ![b] = @ + 1]
           ELSE /\ cb' = cb
                /\ last_op' = NoOp
                /\ streak' = streak
        /\ IF LastAttempt(f.attempt, f.max_retries)
           THEN call' = [call EXCEPT ![c] =
                    [f EXCEPT !.pc = "raised", !.exc = f.last_exception]]
           ELSE call' = [call EXCEPT ![c] =
                    [f EXCEPT !.pc = "sleeping",
                              !.delays = Append(@, delay),
                              !.sleep_left = delay]]
    /\ UNCHANGED <<policy, http>>

\* an except clause that gives up at once on a permanent error
OperationRaises_nonretryable(c) ==
    /\ call[c].pc = "calling"
    /\ \E e \in policy.errors :
       LET b == call[c].circuit_breaker
           f == [call[c] EXCEPT
                    !.last_exception = Raises(e, call[c].attempt)]
           delay == Delay(policy.base_delay, policy.backoff_factor,
                          f.attempt, policy.max_delay)
       IN
        /\ IF b # None
           THEN /\ cb' = [cb EXCEPT ![b] = record_failure(cb[b])]
                /\ last_op' = Op("record_failure", c, b, TRUE, cb[b])
                /\ streak' = [streak EXCEPT ![b] = @ + 1]
           ELSE /\ cb' = cb
                /\ last_op' = NoOp
                /\ streak' = streak
        /\ IF LastAttempt(f.attempt, f.max_retries)
              \/ e = "ValidationException"
           THEN call' = [call EXCEPT ![c] =
                    [f EXCEPT !.pc = "raised", !.exc = f.last_exception]]
           ELSE call' = [call EXCEPT ![c] =
                    [f EXCEPT !.pc = "sleeping",
                              !.delays = Append(@, delay),
                              !.sleep_left = delay]]
    /\ UNCHANGED <<policy, http>>

\* func() raises one of the errors it can raise: record_failure, then either leave the loop and re-raise
\* last_exception (attempt == max_retries) or compute the delay and sleep.
OperationRaises(c) ==
    /\ call[c].pc = "calling"
    /\ \E e \in policy.errors :
       LET b == call[c].circuit_breaker
           f == [call[c] EXCEPT
                    !.last_exception = Raises(e, call[c].attempt)]
           delay == Delay(policy.base_delay, policy.backoff_factor,
                          f.attempt, policy.max_delay)
       IN
        /\ IF b # None
           THEN /\ cb' = [cb EXCEPT ![b] = record_failure(cb[b])]
                /\ last_op' = Op("record_failure", c, b, TRUE, cb[b])
                /\ streak' = [streak EXCEPT ![b] = @ + 1]
           ELSE /\ cb' = cb
                /\ last_op' = NoOp
                /\ streak' = streak
        /\ IF LastAttempt(f.attempt, f.max_retries)
           THEN call' = [call EXCEPT ![c] =
                    [f EXCEPT !.pc = "raised", !.exc = f.last_exception]]
           ELSE call' = [call EXCEPT ![c] =
                    [f EXCEPT !.pc = "sleeping",
                              !.delays = Append(@, delay),
                              !.sleep_left = delay]]
    /\ UNCHANGED <<policy, http>>

\* a loop that asks the breaker again before every further attempt
SleepEnds_rechecks(c) ==
    /\ call[c].pc = "sleeping"
    /\ call[c].sleep_left = 0
    /\ LET b == call[c].circuit_breaker
       IN  IF b = None
           THEN /\ call' = [call EXCEPT
                              ![c].pc = "calling",
                              ![c].attempt = @ + 1,
                              ![c].invoked = Append(@, call[c].attempt + 1)]
                /\ last_op' = NoOp
                /\ cb' = cb
           ELSE /\ cb' = [cb EXCEPT ![b] = can_execute(cb[b]).self]
                /\ last_op' = Op("can_execute", c, b,
                                 can_execute(cb[b]).ret, cb[b])
                /\ call' = [call EXCEPT ![c] =
                       IF can_execute(cb[b]).ret
                       THEN [call[c] EXCEPT
                               !.pc = "calling",
                               !.attempt = @ + 1,
                               !.invoked = Append(@, call[c].attempt + 1)]
                       ELSE [call[c] EXCEPT !.pc = "raised",
                                            !.exc = CircuitOpen]]
    /\ UNCHANGED <<policy, streak, http>>

\* asyncio.sleep(delay) is over: the next iteration of the loop invokes func.
SleepEnds(c) ==
    /\ call[c].pc = "sleeping"
    /\ call[c].sleep_left = 0
    /\ call' = [call EXCEPT ![c].pc = "calling",
                            ![c].attempt = @ + 1,
                            ![c].invoked = Append(@, call[c].attempt + 1)]
    /\ last_op' = NoOp
    /\ UNCHANGED <<cb, policy, streak, http>>

\* a cancellation that the except clause intercepts: the failure is
\* recorded before the CancelledError goes on
Cancel_recorded(c) ==
    /\ call[c].pc \in {"calling", "sleeping"}
    /\ LET b == call[c].circuit_breaker IN
        IF b # None /\ call[c].pc = "calling"
        THEN /\ cb' = [cb EXCEPT ![b] = record_failure(cb[b])]
             /\ last_op' = Op("record_failure", c, b, TRUE, cb[b])
             /\ streak' = [streak EXCEPT ![b] = @ + 1]
        ELSE /\ cb' = cb
             /\ last_op' = NoOp
             /\ streak' = streak
    /\ call' = [call EXCEPT ![c].pc = "cancelled",
                            ![c].exc = Cancelled,
                            ![c].sleep_left = 0]
    /\ UNCHANGED <<policy, http>>

\* The caller cancels the call while it is suspended in await func() or in
\* await asyncio.sleep(delay): CancelledError is a BaseException, which
\* `except Exception` does not catch, so it leaves retry_with_backoff.
Cancel(c) ==
    /\ call[c].pc \in {"calling", "sleeping"}
    /\ call' = [call EXCEPT ![c].pc = "cancelled",
                            ![c].exc = Cancelled,
                            ![c].sleep_left = 0]
    /\ last_op' = NoOp
    /\ UNCHANGED <<cb, policy, streak, http>>

\* one clock unit passes
Tick ==
    /\ cb' = [b \in DOMAIN cb |-> Age(cb[b])]
    /\ call' = [c \in Calls |->
                  IF call[c].sleep_left > 0
                  THEN [call[c] EXCEPT !.sleep_left = @ - 1]
                  ELSE call[c]]
    /\ last_op' = NoOp
    /\ UNCHANGED <<policy, streak, http>>

Next ==
    \/ \E c \in Calls : Enter(c)
    \/ \E c \in Calls : OperationReturns(c)
    \/ \E c \in Calls : OperationRaises(c)
    \/ \E c \in Calls : SleepEnds(c)
    \/ \E c \in Calls : Cancel(c)
    \/ Tick

Spec == Init /\ [][Next]_vars

SpecAnyRetries == InitAnyRetries /\ [][Next]_vars

SpecTwoBreakers == InitTwoBreakers /\ [][Next]_vars

SpecErrorKinds == InitErrorKinds /\ [][Next]_vars

\* Calls that nobody cancels.
NextUncancelled ==
    \/ \E c \in Calls : Enter(c)
    \/ \E c \in Calls : OperationReturns(c)
    \/ \E c \in Calls : OperationRaises(c)
    \/ \E c \in Calls : SleepEnds(c)
    \/ Tick

\* Every func invocation returns or raises, time passes, and the event loop
\* resumes a coroutine whose asyncio.sleep is over.
Fairness ==
    /\ \A c \in Calls : WF_vars(OperationReturns(c) \/ OperationRaises(c))
    /\ \A c \in Calls : WF_vars(SleepEnds(c))
    /\ WF_vars(Tick)

SpecFair == Init /\ [][NextUncancelled]_vars /\ Fairness

(* ------------- requests that keep arriving, a dependency that recovers -- *)
\* the handler of a finished request is called again for a new request
Arrive(c) ==
    /\ call[c].pc \in {"returned", "raised"}
    /\ call' = [call EXCEPT ![c] = IdleCall]
    /\ last_op' = NoOp
    /\ UNCHANGED <<cb, policy, streak, http>>

\* the dependency still fails: it does so until MaxCount failures stand on a
\* breaker, and has recovered by then
StillFailing == \A b \in DOMAIN cb : cb[b].failure_count < MaxCount

NextRecovery ==
    \/ \E c \in Calls : Enter(c)
    \/ \E c \in Calls : OperationReturns(c)
    \/ \E c \in Calls : StillFailing /\ OperationRaises(c)
    \/ \E c \in Calls : SleepEnds(c)
    \/ \E c \in Calls : Arrive(c)
    \/ Tick

\* Every func invocation returns or raises, time passes, the event loop
\* resumes a coroutine whose asyncio.sleep is over, and requests that use the
\* breaker keep arriving.
FairnessRecovery ==
    /\ \A c \in Calls :
          WF_vars(OperationReturns(c) \/ (StillFailing /\ OperationRaises(c)))
    /\ \A c \in Calls : WF_vars(SleepEnds(c))
    /\ \A c \in Calls : WF_vars(Arrive(c))
    /\ \A c \in Calls :
          SF_vars(Enter(c) /\ call'[c].circuit_breaker # None)
    /\ WF_vars(Tick)

\* the arguments the Bedrock handlers pass: max_retries=2, base_delay=1.0,
\* and the default backoff_factor
InitDeployed ==
    /\ Init
    /\ policy.max_retries = 2
    /\ policy.base_delay = 1
    /\ policy.backoff_factor = 2

SpecRecovery == InitDeployed /\ [][NextRecovery]_vars /\ FairnessRecovery

(* ------------- a breaker driven by arbitrary method calls -------------- *)
\* some code calls b.can_execute()
CallCanExecute(b) ==
    /\ cb' = [cb EXCEPT ![b] = can_execute(cb[b]).self]
    /\ last_op' = Op("can_execute", "any", b, can_execute(cb[b]).ret, cb[b])
    /\ UNCHANGED <<policy, call, streak, http>>

\* some code calls b.record_success()
CallRecordSuccess(b) ==
    /\ cb' = [cb EXCEPT ![b] = record_success(cb[b])]
    /\ last_op' = Op("record_success", "any", b, TRUE, cb[b])
    /\ streak' = [streak EXCEPT ![b] = 0]
    /\ UNCHANGED <<policy, call, http>>

\* some code calls b.record_failure()
CallRecordFailure(b) ==
    /\ cb[b].failure_count < MaxCount
    /\ cb' = [cb EXCEPT ![b] = record_failure(cb[b])]
    /\ last_op' = Op("record_failure", "any", b, TRUE, cb[b])
    /\ streak' = [streak EXCEPT ![b] = @ + 1]
    /\ UNCHANGED <<policy, call, http>>

NextBreaker ==
    \/ \E b \in Breakers : CallCanExecute(b)
    \/ \E b \in Breakers : CallRecordSuccess(b)
    \/ \E b \in Breakers : CallRecordFailure(b)
    \/ Tick

SpecBreaker == Init /\ [][NextBreaker]_vars

(* ------------- the handlers' except clauses (HTTP layer) --------------- *)
\* A text is the sequence of its words; `needle in str(e).lower()` is asked
\* of whole words (no word below is part of another).
Handlers == {"summarize_content", "summarize_content_aggressive",
             "generate_script", "synthesize_speech"}
Tokens == {"Bedrock", "timeout", "Polly", "AccessDenied"}
Instants == {"t1", "t2"}           \* datetime.now().isoformat()

\* str.lower()
Lower(t) ==
    CASE t = "Bedrock" -> "bedrock"
      [] t = "Polly" -> "polly"
      [] t = "AccessDenied" -> "accessdenied"
      [] t = "Circuit breaker is OPEN - service temporarily unavailable" ->
             "circuit breaker is open - service temporarily unavailable"
      [] OTHER -> t

\* needle in str(e).lower()
Contains(text, needle) == \E i \in 1..Len(text) : Lower(text[i]) = needle

\* str(e) of the exceptions func raises
Messages == {<<t>> : t \in Tokens} \cup {<<t, u>> : t, u \in Tokens}

\* str(e) of the exception of line 255
CircuitOpenText ==
    <<"Circuit breaker is OPEN - service temporarily unavailable">>

\* what retry_with_backoff raises into the handler's try block
Raised(kind, text) == [kind |-> kind, text |-> text]
Surfaced ==
    {Raised("operation", m) : m \in Messages}
        \cup {Raised("circuit_open", CircuitOpenText)}

create_error_response(error_type, detail, suggestion, now) ==
    [error |-> error_type, detail |-> detail, timestamp |-> now,
     suggestion |-> suggestion]

HTTPException(status_code, detail) ==
    [status_code |-> status_code, detail |-> detail]

summarize_content(e) ==
    HTTPException(500, <<"Error summarizing content: ">> \o e.text)

summarize_content_aggressive(e) ==
    HTTPException(500, <<"Error in aggressive summarization: ">> \o e.text)

generate_script(e, now) ==
    LET error_detail ==
            IF Contains(e.text, "bedrock") \/ Contains(e.text, "anthropic")
            THEN <<"AI service unavailable. Please check your AWS Bedrock configuration.">>
            ELSE IF Contains(e.text, "timeout")
            THEN <<"Request timed out. The AI service took too long to respond.">>
            ELSE <<"Script generation failed: ">> \o e.text
        suggestion ==
            IF Contains(e.text, "bedrock") \/ Contains(e.text, "anthropic")
            THEN "Ensure AWS credentials are configured and you have access to Claude models in Bedrock"
            ELSE IF Contains(e.text, "timeout")
            THEN "Try again with shorter content or check your network connection"
            ELSE "Please try again or contact support if the problem persists"
    IN  HTTPException(500,
            create_error_response("SCRIPT_GENERATION_FAILED", error_detail,
                                  suggestion, now))

synthesize_speech(e, now) ==
    LET error_detail ==
            IF Contains(e.text, "polly") \/ Contains(e.text, "aws")
            THEN <<"Speech synthesis service unavailable. Please check your AWS Polly configuration.">>
            ELSE <<"Speech synthesis failed: ">> \o e.text
        suggestion ==
            IF Contains(e.text, "polly") \/ Contains(e.text, "aws")
            THEN "Ensure AWS credentials are configured and you have access to Polly service"
            ELSE "Please try again or contact support if the problem persists"
    IN  HTTPException(500,
            create_error_response("SPEECH_SYNTHESIS_FAILED", error_detail,
                                  suggestion, now))

\* the HTTPException handler h raises for exception e caught at time now
Answer(h, e, now) ==
    CASE h = "summarize_content" -> summarize_content(e)
      [] h = "summarize_content_aggressive" -> summarize_content_aggressive(e)
      [] h = "generate_script" -> generate_script(e, now)
      [] h = "synthesize_speech" -> synthesize_speech(e, now)

\* `except Exception as e` of handler h, in two runs of the same request at
\* the same instant: retry_with_backoff raised e1 in one and e2 in the other
HandlerCatches(h) ==
    /\ http.pc = "idle"
    /\ \E e1, e2 \in Surfaced, now \in Instants :
          http' = [pc |-> "caught", handler |-> h, now |-> now,
                   e |-> <<e1, e2>>, response |-> <<>>]
    /\ UNCHANGED <<cb, policy, call, last_op, streak>>

\* `raise HTTPException(...)` in both runs
HandlerAnswers ==
    /\ http.pc = "caught"
    /\ http' = [http EXCEPT
                  !.pc = "answered",
                  !.response = <<Answer(http.handler, http.e[1], http.now),
                                 Answer(http.handler, http.e[2], http.now)>>]
    /\ UNCHANGED <<cb, policy, call, last_op, streak>>

NextHttp ==
    \/ \E h \in Handlers : HandlerCatches(h)
    \/ HandlerAnswers

SpecHttp == Init /\ [][NextHttp]_vars

(* ------------------------------ claims --------------------------------- *)
\* the step just taken ran method `name` of breaker b
Ran(name, b) == last_op.name = name /\ last_op.b = b

\* C1: for every failure_threshold N >= 1, a breaker that has recorded fewer
\* than N failures since construction or since its latest success is CLOSED;
\* the record_failure that makes it N consecutive failures finds it CLOSED
\* and leaves it OPEN; and whenever record_failure takes the breaker from
\* CLOSED to OPEN, failure_count has just reached N.
C1_TripsAtThreshold ==
    \A b \in Breakers :
        LET N == cb[b].failure_threshold IN
        /\ streak[b] < N => cb[b].state = "CLOSED"
        /\ (Ran("record_failure", b) /\ streak[b] = N)
               => last_op.pre.state = "CLOSED" /\ cb[b].state = "OPEN"
        /\ (Ran("record_failure", b) /\ last_op.pre.state = "CLOSED"
                /\ cb[b].state = "OPEN")
               => cb[b].failure_count = N /\ streak[b] = N

\* a third consecutive failure has just tripped a breaker of threshold 3
C1_Witness ==
    \E b \in Breakers :
        /\ Ran("record_failure", b)
        /\ cb[b].failure_threshold = 3
        /\ streak[b] = 3
        /\ last_op.pre.state = "CLOSED"
        /\ last_op.pre.failure_count = 2
        /\ cb[b].state = "OPEN"

\* C2: whatever the breaker's state and failure_count were, right after a
\* record_success() failure_count is 0 and state is CLOSED.
C2_SuccessResets ==
    \A b \in Breakers :
        Ran("record_success", b)
            => cb[b].failure_count = 0 /\ cb[b].state = "CLOSED"

\* record_success has just run on an OPEN breaker with failures counted
C2_Witness ==
    \E b \in Breakers :
        /\ Ran("record_success", b)
        /\ last_op.pre.state = "OPEN"
        /\ last_op.pre.failure_count > 0
        /\ cb[b].state = "CLOSED"

\* C3: can_execute() on an OPEN breaker returns false and leaves it OPEN
\* when the time since last_failure_time is at most recovery_timeout, and
\* returns true and makes it HALF_OPEN when that time exceeds
\* recovery_timeout.
C3_OpenAdmission ==
    \A b \in Breakers :
        (Ran("can_execute", b) /\ last_op.pre.state = "OPEN")
            => IF last_op.pre.since_failure > last_op.pre.recovery_timeout
               THEN last_op.ret /\ cb[b].state = "HALF_OPEN"
               ELSE ~last_op.ret /\ cb[b].state = "OPEN"

\* can_execute has just refused at exactly last_failure_time + recovery_timeout
C3_Witness ==
    \E b \in Breakers :
        /\ Ran("can_execute", b)
        /\ last_op.pre.state = "OPEN"
        /\ last_op.pre.since_failure = last_op.pre.recovery_timeout
        /\ ~last_op.ret
        /\ cb[b].state = "OPEN"

\* C4: a record_failure() on a HALF_OPEN breaker leaves it OPEN.
C4_HalfOpenFailureReopens ==
    \A b \in Breakers :
        (Ran("record_failure", b) /\ last_op.pre.state = "HALF_OPEN")
            => cb[b].state = "OPEN"

\* record_failure has just reopened a HALF_OPEN breaker
C4_Witness ==
    \E b \in Breakers :
        /\ Ran("record_failure", b)
        /\ last_op.pre.state = "HALF_OPEN"
        /\ cb[b].state = "OPEN"

\* In HALF_OPEN the count recorded when the breaker tripped is still there.
HalfOpenKeepsCount ==
    \A b \in Breakers :
        cb[b].state # "CLOSED"
            => cb[b].failure_count >= cb[b].failure_threshold

\* the breaker a call was given, and whether it was given one
Breaker(c) == call[c].circuit_breaker
Guarded(c) == call[c].circuit_breaker # None

\* C5: when the operation invoked by a call succeeds while the call's
\* breaker is HALF_OPEN, the breaker is CLOSED with failure_count 0 as the
\* call returns.
C5_HalfOpenSuccessCloses ==
    [][\A c \in Calls :
          (/\ call[c].pc = "calling"
           /\ call'[c].pc = "returned"
           /\ Guarded(c)
           /\ cb[Breaker(c)].state = "HALF_OPEN")
          => /\ cb'[Breaker(c)].state = "CLOSED"
             /\ cb'[Breaker(c)].failure_count = 0]_vars

\* a call has just returned a result from a HALF_OPEN breaker, now CLOSED
C5_Witness ==
    \E c \in Calls :
        /\ call[c].pc = "returned"
        /\ Guarded(c)
        /\ Ran("record_success", Breaker(c))
        /\ last_op.c = c
        /\ last_op.pre.state = "HALF_OPEN"
        /\ cb[Breaker(c)].state = "CLOSED"
        /\ cb[Breaker(c)].failure_count = 0

\* C6: a call entered with a breaker that is OPEN and whose latest failure is
\* no more than recovery_timeout old ends at once with the circuit-open
\* error: func is not invoked, no delay is taken, and the breaker is left as
\* it was (neither record_success nor record_failure runs).
C6_OpenRejects ==
    [][\A c \in Calls : \A b \in Breakers :
          (/\ call[c].pc = "idle"
           /\ call'[c].pc # "idle"
           /\ call'[c].circuit_breaker = b
           /\ cb[b].state = "OPEN"
           /\ cb[b].since_failure <= cb[b].recovery_timeout)
          => /\ call'[c].pc = "raised"
             /\ call'[c].exc = CircuitOpen
             /\ call'[c].invoked = <<>>
             /\ call'[c].delays = <<>>
             /\ call'[c].sleep_left = 0
             /\ last_op'.name = "can_execute"
             /\ cb' = cb
             /\ streak' = streak]_vars

\* a call has just been refused by an OPEN breaker without invoking func
C6_Witness ==
    \E c \in Calls :
        /\ call[c].pc = "raised"
        /\ call[c].exc = CircuitOpen
        /\ call[c].invoked = <<>>
        /\ Guarded(c)
        /\ Ran("can_execute", Breaker(c))
        /\ last_op.c = c
        /\ ~last_op.ret
        /\ cb[Breaker(c)].state = "OPEN"

\* the attempt indices 0..m in order
UpTo(m) == [i \in 1..(m + 1) |-> i - 1]

\* C7: a call that ends with the operation's error has invoked func exactly
\* max_retries + 1 times, with attempt indices 0..max_retries in order, and
\* the error it raises is the one of the last invocation; no call invokes
\* func more often, and a call whose attempts have all failed so far has
\* made them in order.
C7_AlwaysFailing ==
    \A c \in Calls :
        /\ Len(call[c].invoked) <= policy.max_retries + 1
        /\ (call[c].pc = "raised" /\ call[c].exc.kind = "operation")
               => /\ call[c].invoked = UpTo(policy.max_retries)
                  /\ call[c].exc = OperationError(policy.max_retries)
        /\ call[c].pc = "sleeping"
               => /\ call[c].attempt < policy.max_retries
                  /\ call[c].invoked = UpTo(call[c].attempt)

\* with max_retries = 3 a call has failed four times and raised the 4th error
C7_Witness ==
    \E c \in Calls :
        /\ policy.max_retries = 3
        /\ call[c].pc = "raised"
        /\ call[c].invoked = <<0, 1, 2, 3>>
        /\ call[c].exc = OperationError(3)

\* C8: the k-th delay a call takes (after the failed attempt with index
\* k - 1 < max_retries) is base_delay * backoff_factor^(k-1), or max_delay
\* if that is larger; with max_retries 3, base_delay 1, backoff_factor 2,
\* max_delay 5 a call that fails throughout has taken the delays 1, 2, 4;
\* every delay is at most max_delay and the delays never decrease.
C8_BackoffDelays ==
    \A c \in Calls :
        LET d == call[c].delays IN
        /\ Len(d) <= policy.max_retries
        /\ \A k \in 1..Len(d) :
              LET raw == policy.base_delay * policy.backoff_factor ^ (k - 1)
              IN  /\ d[k] = IF raw < policy.max_delay
                            THEN raw ELSE policy.max_delay
                  /\ d[k] <= policy.max_delay
                  /\ k > 1 => d[k - 1] <= d[k]
        /\ (/\ policy.max_retries = 3 /\ policy.base_delay = 1
            /\ policy.backoff_factor = 2 /\ policy.max_delay = 5
            /\ call[c].pc = "raised"
            /\ call[c].exc.kind = "operation")
           => d = <<1, 2, 4>>

\* the delays 1, 2, 4 have been taken under the policy (3, 1, 2, 5)
C8_Witness ==
    \E c \in Calls :
        /\ policy.max_retries = 3 /\ policy.base_delay = 1
        /\ policy.backoff_factor = 2 /\ policy.max_delay = 5
        /\ call[c].pc = "raised"
        /\ call[c].delays = <<1, 2, 4>>

\* a delay has been capped at max_delay
C8_CappedReached ==
    \E c \in Calls : \E k \in 1..Len(call[c].delays) :
        /\ call[c].delays[k] = policy.max_delay
        /\ policy.base_delay * policy.backoff_factor ^ (k - 1)
               > policy.max_delay

\* C9: with failure_threshold 3, when three failures have been recorded
\* through retry_with_backoff since construction or the latest success and no
\* time has passed since the third, the breaker is OPEN, and a call entered
\* with it at that instant is refused with the circuit-open error without
\* invoking func.
C9_ThreeFailuresThenRejected ==
    /\ [](\A b \in Breakers :
            (/\ cb[b].failure_threshold = 3
             /\ streak[b] = 3
             /\ cb[b].since_failure = 0)
            => cb[b].state = "OPEN")
    /\ [][\A c \in Calls : \A b \in Breakers :
            (/\ cb[b].failure_threshold = 3
             /\ streak[b] = 3
             /\ cb[b].since_failure = 0
             /\ call[c].pc = "idle"
             /\ call'[c].pc # "idle"
             /\ call'[c].circuit_breaker = b)
            => /\ call'[c].pc = "raised"
               /\ call'[c].exc = CircuitOpen
               /\ call'[c].invoked = <<>>]_vars

\* one call with max_retries = 2 has failed three times and the next call,
\* entered at the same instant, has been refused
C9_Witness ==
    \E c, d \in Calls : \E b \in Breakers :
        /\ policy.max_retries = 2
        /\ cb[b].failure_threshold = 3
        /\ streak[b] = 3
        /\ cb[b].since_failure = 0
        /\ call[c].circuit_breaker = b
        /\ call[c].pc = "raised"
        /\ call[c].exc = OperationError(2)
        /\ call[d].circuit_breaker = b
        /\ call[d].pc = "raised"
        /\ call[d].exc = CircuitOpen
        /\ call[d].invoked = <<>>
        /\ Ran("can_execute", b)

\* C10: whenever a call that was given a breaker returns a result, on
\* whichever attempt, that breaker has failure_count 0 and is CLOSED at the
\* return.
C10_ReturnLeavesClosed ==
    [][\A c \in Calls :
          (/\ call[c].pc # "returned"
           /\ call'[c].pc = "returned"
           /\ Guarded(c))
          => /\ cb'[Breaker(c)].failure_count = 0
             /\ cb'[Breaker(c)].state = "CLOSED"]_vars

\* with max_retries = 3 a call has succeeded on its 2nd attempt: the one
\* failure it recorded has just been reset
C10_Witness ==
    \E c \in Calls :
        /\ policy.max_retries = 3
        /\ call[c].pc = "returned"
        /\ call[c].invoked = <<0, 1>>
        /\ Guarded(c)
        /\ Ran("record_success", Breaker(c))
        /\ last_op.c = c
        /\ last_op.pre.failure_count = 1
        /\ cb[Breaker(c)].failure_count = 0
        /\ cb[Breaker(c)].state = "CLOSED"

\* call c invokes func in this step
Invokes(c) == Len(call'[c].invoked) > Len(call[c].invoked)

\* breaker b is OPEN and its latest failure is at most recovery_timeout old
CoolingDown(b) ==
    cb[b].state = "OPEN" /\ cb[b].since_failure <= cb[b].recovery_timeout

\* C11: while a breaker is OPEN and at most recovery_timeout has passed since
\* its latest failure, no call that was given that breaker invokes func.
C11_NoInvocationWhileCoolingDown ==
    [][\A c \in Calls : \A b \in Breakers :
          (Invokes(c) /\ call'[c].circuit_breaker = b) => ~CoolingDown(b)]_vars

\* C12: once a breaker is HALF_OPEN, no further func invocation is made with
\* it (and so no further call is admitted) until it is CLOSED or OPEN again:
\* the only trial is the invocation made by the step that made it HALF_OPEN.
C12_SingleTrial ==
    [][\A c \in Calls : \A b \in Breakers :
          (Invokes(c) /\ call'[c].circuit_breaker = b)
              => cb[b].state # "HALF_OPEN"]_vars

\* C13: whatever the interleaving of the calls sharing a breaker, its
\* failure_count is the number of record_failure() calls made on it since
\* its latest record_success() (or since construction).
C13_NoLostFailure ==
    \A b \in Breakers : cb[b].failure_count = streak[b]

\* two calls sharing a breaker have interleaved their failures: one has just
\* recorded a failure while the other, which failed before, is in its backoff
C13_Witness ==
    \E c, d \in Calls : \E b \in Breakers :
        /\ c # d
        /\ call[c].circuit_breaker = b
        /\ call[d].circuit_breaker = b
        /\ Ran("record_failure", b)
        /\ last_op.c = c
        /\ call[d].pc = "sleeping"
        /\ call[c].attempt > 0
        /\ streak[b] >= 3
        /\ cb[b].failure_count = streak[b]

\* C14: when a call is cancelled during await func() or during its backoff
\* sleep, the step that cancels it runs no breaker method and leaves the
\* breaker (state, failure_count, last_failure_time) as it was, and the
\* cancelled call never invokes func or touches the breaker again.
C14_CancelLeavesBreaker ==
    [][\A c \in Calls :
          /\ (call[c].pc # "cancelled" /\ call'[c].pc = "cancelled")
                => /\ cb' = cb
                   /\ streak' = streak
                   /\ last_op'.name = "none"
                   /\ call'[c].invoked = call[c].invoked
                   /\ call'[c].delays = call[c].delays
          /\ call[c].pc = "cancelled"
                => /\ call'[c] = call[c]
                   /\ last_op'.c # c]_vars

\* a call whose func was in flight (attempt 1, after one recorded failure)
\* has just been cancelled and the breaker still counts that one failure
C14_Witness ==
    \E c \in Calls :
        /\ call[c].pc = "cancelled"
        /\ Guarded(c)
        /\ call[c].invoked = <<0, 1>>
        /\ Len(call[c].delays) = 1
        /\ last_op = NoOp
        /\ streak[Breaker(c)] = 1
        /\ cb[Breaker(c)].failure_count = 1
        /\ \A d \in Calls \ {c} : call[d].pc = "idle"

\* C15: a call entered with max_retries < 0 ends at once with an error that
\* is neither an operation failure nor the circuit-open rejection, without
\* invoking func and leaving the breaker (state, failure_count,
\* last_failure_time) as it was.
C15_NegativeRetriesFailFast ==
    [][\A c \in Calls :
          (/\ call[c].pc = "idle"
           /\ call'[c].pc # "idle"
           /\ call'[c].max_retries < 0)
          => /\ call'[c].pc = "raised"
             /\ call'[c].exc.kind \notin {"operation", "circuit_open"}
             /\ call'[c].invoked = <<>>
             /\ cb' = cb]_vars

\* the part of C15 that the code does keep: func is never invoked
C15_NegativeRetriesNeverInvoke ==
    \A c \in Calls : call[c].max_retries < 0 => call[c].invoked = <<>>

\* the outcomes of a call: a result, the operation's final error, or the
\* circuit-open error
Terminal(c) ==
    \/ call[c].pc = "returned"
    \/ call[c].pc = "raised" /\ call[c].exc.kind \in {"operation", "circuit_open"}

\* C16: a call that has been entered (with max_retries >= 0, and that nobody
\* cancels) eventually reaches one of the outcomes: a result, the final
\* operation error or the circuit-open error; it never invokes func more
\* than max_retries + 1 times; and once it has an outcome its frame never
\* changes again.
C16_CallTerminates ==
    /\ \A c \in Calls : (call[c].pc # "idle") ~> Terminal(c)
    /\ [](\A c \in Calls :
            /\ Len(call[c].invoked) <= call[c].max_retries + 1
            /\ call[c].pc \in {"idle", "calling", "sleeping"} \/ Terminal(c))
    /\ [][\A c \in Calls : Terminal(c) => call'[c] = call[c]]_vars

\* one call has ended in the final operation error after max_retries + 1 = 3
\* invocations while the other has returned a result on its second attempt
C16_Witness ==
    \E c, d \in Calls :
        /\ call[c].pc = "raised"
        /\ call[c].exc = OperationError(2)
        /\ Len(call[c].invoked) = 3
        /\ call[d].pc = "returned"
        /\ Len(call[d].invoked) = 2

\* C17: a handler's answer to a final operation error does not depend on the
\* error's message (two runs that differ only in that message get the same
\* client-visible detail), and its answer to the breaker's rejection is
\* different from its answer to an operation error.
C17_AnswerHidesErrorText ==
    http.pc = "answered" =>
        /\ (http.e[1].kind = "operation" /\ http.e[2].kind = "operation")
               => http.response[1].detail = http.response[2].detail
        /\ (http.e[1].kind = "circuit_open" /\ http.e[2].kind = "operation")
               => http.response[1] # http.response[2]

\* C18: in every reachable state a breaker is CLOSED exactly when its
\* failure_count is below its failure_threshold (so OPEN and HALF_OPEN imply
\* failure_count >= failure_threshold), whatever the interleaving of
\* can_execute, record_success and record_failure.
C18_StateMatchesCount ==
    \A b \in Breakers :
        /\ cb[b].failure_threshold >= 1
        /\ cb[b].state = "CLOSED"
              <=> cb[b].failure_count < cb[b].failure_threshold
        /\ cb[b].state \in {"OPEN", "HALF_OPEN"}
              => cb[b].failure_count >= cb[b].failure_threshold

\* a trial admitted after failures went on being recorded past the threshold
C18_Witness ==
    \E b \in Breakers :
        /\ last_op.name = "can_execute" /\ last_op.b = b
        /\ last_op.pre.state = "OPEN"
        /\ cb[b].state = "HALF_OPEN"
        /\ cb[b].failure_threshold >= 2
        /\ cb[b].failure_count > cb[b].failure_threshold

\* C19: can_execute() is run exactly once per retry_with_backoff call that
\* has a breaker, in the step that enters the call and before attempt 0; a
\* rejected call is over (the executor makes no attempt and never tries
\* again); an admitted call goes from each backoff to its next attempt
\* without running can_execute() and without touching the breaker, whatever
\* the breaker's state has become.
C19_AdmissionCheckedOnce ==
    [][\A c \in Calls :
        LET entering == call[c].pc = "idle" /\ call'[c].pc # "idle"
            checking == /\ last_op'.name = "can_execute"
                        /\ last_op'.c = c
                        /\ call'[c] # call[c]
        IN  /\ checking => entering /\ call[c].invoked = <<>>
            /\ (entering /\ call'[c].circuit_breaker # None) => checking
            /\ (call[c].pc = "raised" /\ call[c].exc = CircuitOpen)
                  => /\ call'[c] = call[c]
                     /\ call[c].invoked = <<>>
            /\ (call[c].pc = "sleeping" /\ call'[c].pc # "sleeping")
                  => /\ call'[c].pc \in {"calling", "cancelled"}
                     /\ cb' = cb
                     /\ last_op'.name # "can_execute"
            /\ (call[c].pc = "calling" /\ call'[c] # call[c])
                  => last_op'.name # "can_execute"
      ]_vars

\* an admitted call runs a further attempt while its breaker is OPEN and
\* would reject a new call
C19_Witness ==
    \E c \in Calls :
        /\ Guarded(c)
        /\ call[c].pc = "calling" /\ call[c].attempt >= 1
        /\ cb[Breaker(c)].state = "OPEN"
        /\ ~can_execute(cb[Breaker(c)]).ret

\* the step in which the invocation of c that is in flight raises
Fails(c) ==
    /\ call[c].pc = "calling"
    /\ call'[c].last_exception = OperationError(call[c].attempt)
    /\ call'[c].pc \in {"sleeping", "raised"}

\* C20: in a call with a breaker, the step in which an invocation fails
\* (intermediate or final) runs record_failure() exactly once, and the
\* backoff delay of that attempt starts only in that step, after it; the call
\* runs record_failure() in no other step; so while no other call has used
\* the breaker, failure_count equals the number of failed attempts of the
\* call, already during each backoff.
C20_FailureRecordedBeforeBackoff ==
    /\ [][\A c \in Calls :
            LET b == call[c].circuit_breaker
                recording == /\ last_op'.name = "record_failure"
                             /\ last_op'.c = c
                             /\ call'[c] # call[c]
            IN  /\ (Fails(c) /\ b # None)
                      => /\ last_op' = Op("record_failure", c, b, TRUE, cb[b])
                         /\ cb'[b] = record_failure(cb[b])
                         /\ cb'[b].failure_count = cb[b].failure_count + 1
                         /\ call'[c].pc = "sleeping"
                               => /\ call[c].sleep_left = 0
                                  /\ call'[c].sleep_left
                                        = call'[c].delays[Len(call'[c].delays)]
                /\ recording => Fails(c)
         ]_vars
    /\ [](\A c \in Calls :
            (Guarded(c) /\ \A d \in Calls \ {c} : call[d].pc = "idle")
               => /\ call[c].pc = "calling"
                     => cb[Breaker(c)].failure_count = call[c].attempt
                  /\ (call[c].pc = "sleeping"
                        \/ (call[c].pc = "raised"
                              /\ call[c].exc.kind = "operation"))
                     => cb[Breaker(c)].failure_count = call[c].attempt + 1)

\* the second failure of a call is on the breaker while its backoff is
\* running and the other call has not started
C20_Witness ==
    \E c \in Calls :
        /\ Guarded(c)
        /\ \A d \in Calls \ {c} : call[d].pc = "idle"
        /\ call[c].pc = "sleeping" /\ call[c].sleep_left > 0
        /\ call[c].attempt = 1
        /\ last_op = Op("record_failure", c, Breaker(c), TRUE, last_op.pre)
        /\ last_op.pre.failure_count = 1
        /\ cb[Breaker(c)].failure_count = 2

\* C21: no backoff delay is taken after the last allowed attempt: a call that
\* ended in failure after max_retries + 1 invocations has suspended exactly
\* max_retries times, a call that succeeded on the attempt with index k has
\* suspended exactly k times, and a call with max_retries = 0 never suspends.
C21_NoDelayAfterLastAttempt ==
    \A c \in Calls :
        /\ (call[c].pc = "raised" /\ call[c].exc.kind = "operation")
              => /\ Len(call[c].invoked) = call[c].max_retries + 1
                 /\ Len(call[c].delays) = call[c].max_retries
                 /\ call[c].sleep_left = 0
        /\ call[c].pc = "returned"
              => /\ Len(call[c].delays) = call[c].attempt
                 /\ Len(call[c].invoked) = call[c].attempt + 1
        /\ call[c].pc = "sleeping"
              => /\ call[c].attempt < call[c].max_retries
                 /\ Len(call[c].delays) = call[c].attempt + 1
        /\ call[c].max_retries = 0
              => call[c].pc # "sleeping" /\ call[c].delays = <<>>

\* one call has failed three times with two suspensions, the other has
\* succeeded on attempt 1 after one suspension
C21_Witness ==
    \E c, d \in Calls :
        /\ call[c].pc = "raised" /\ call[c].exc.kind = "operation"
        /\ call[c].max_retries = 2
        /\ Len(call[c].invoked) = 3 /\ Len(call[c].delays) = 2
        /\ call[d].pc = "returned" /\ call[d].attempt = 1
        /\ Len(call[d].delays) = 1

\* C22: the first successful invocation ends the call: the call returns the
\* result of that invocation, every earlier invocation had failed, and the
\* call makes no further invocation and takes no further delay, so a
\* successful call has made (index of the succeeding attempt) + 1 invocations.
C22_FirstSuccessReturns ==
    /\ [](\A c \in Calls :
            /\ call[c].result # NoResult
                  <=> call[c].pc = "returned"
            /\ call[c].pc = "returned"
                  => /\ call[c].result = call[c].attempt
                     /\ call[c].result
                           = call[c].invoked[Len(call[c].invoked)]
                     /\ Len(call[c].invoked) = call[c].result + 1
                     /\ call[c].last_exception =
                           IF call[c].attempt = 0 THEN NoException
                           ELSE OperationError(call[c].attempt - 1)
                     /\ call[c].sleep_left = 0)
    /\ [][\A c \in Calls :
            /\ call[c].pc = "returned" => call'[c] = call[c]
            /\ (call[c].pc = "calling" /\ call'[c].result # NoResult)
                  => call'[c] = [call[c] EXCEPT !.pc = "returned",
                                                !.result = call[c].attempt]
         ]_vars

\* a call has returned the result of its third invocation
C22_Witness ==
    \E c \in Calls :
        /\ call[c].pc = "returned"
        /\ call[c].result = 2
        /\ call[c].invoked = <<0, 1, 2>>
        /\ call[c].max_retries = 3

\* C23: a breaker becomes HALF_OPEN only in a can_execute() that finds it
\* OPEN with more than recovery_timeout elapsed since last_failure_time and
\* returns True; the passage of time, record_success() and record_failure()
\* never set HALF_OPEN, and an OPEN breaker stays OPEN in every step that is
\* neither a can_execute() nor a record_success() on it, however much time
\* passes.
C23_HalfOpenOnlyByCheck ==
    [][\A b \in Breakers :
          /\ (cb'[b].state = "HALF_OPEN" /\ cb[b].state # "HALF_OPEN")
                => /\ last_op' = Op("can_execute", last_op'.c, b, TRUE, cb[b])
                   /\ cb[b].state = "OPEN"
                   /\ cb[b].since_failure # Never
                   /\ cb[b].since_failure > cb[b].recovery_timeout
          /\ (cb[b].state = "OPEN"
                /\ ~(last_op'.b = b
                       /\ last_op'.name \in {"can_execute", "record_success"}))
                => cb'[b].state = "OPEN"
          /\ (last_op'.b = b
                /\ last_op'.name \in {"record_success", "record_failure"})
                => cb'[b].state # "HALF_OPEN"
      ]_vars

\* the timeout of an OPEN breaker is over, time has just passed again, and
\* the breaker is still OPEN
C23_Witness ==
    \E b \in Breakers :
        /\ cb[b].state = "OPEN"
        /\ cb[b].since_failure > cb[b].recovery_timeout
        /\ last_op = NoOp

\* C24: can_execute() returns True and changes no field of the breaker when
\* the state is CLOSED or HALF_OPEN, changes no field when it returns False
\* (which it does only in OPEN), and otherwise changes only `state`, from
\* OPEN to HALF_OPEN; failure_count and last_failure_time are never modified.
C24_CanExecuteFrame ==
    [][\A b \in Breakers :
          (last_op'.name = "can_execute" /\ last_op'.b = b)
             => /\ last_op'.pre = cb[b]
                /\ cb[b].state \in {"CLOSED", "HALF_OPEN"}
                      => last_op'.ret /\ cb'[b] = cb[b]
                /\ ~last_op'.ret
                      => cb[b].state = "OPEN" /\ cb'[b] = cb[b]
                /\ cb'[b] = [cb[b] EXCEPT !.state = cb'[b].state]
                /\ cb'[b].failure_count = cb[b].failure_count
                /\ cb'[b].since_failure = cb[b].since_failure
                /\ cb'[b].state # cb[b].state
                      => /\ cb[b].state = "OPEN"
                         /\ cb'[b].state = "HALF_OPEN"
                         /\ last_op'.ret
      ]_vars

\* can_execute() has just returned True on a HALF_OPEN breaker that carries
\* recorded failures, and has left it as it was
C24_Witness ==
    \E b \in Breakers :
        /\ last_op.name = "can_execute" /\ last_op.b = b
        /\ last_op.ret
        /\ last_op.pre.state = "HALF_OPEN"
        /\ last_op.pre.failure_count >= 1
        /\ cb[b] = last_op.pre

\* C25: every record_failure(), in any state (OPEN included), sets
\* last_failure_time to the current time, and nothing else sets it: the time
\* elapsed since last_failure_time is reset to zero by each record_failure()
\* and otherwise only grows with the clock, so the recovery window restarts
\* at a failure recorded while the breaker is OPEN (can_execute() is False
\* right after it); last_failure_time is never absent while the breaker is
\* OPEN or HALF_OPEN.
C25_LastFailureTime ==
    /\ [](\A b \in Breakers :
            /\ cb[b].state \in {"OPEN", "HALF_OPEN"}
                  => cb[b].since_failure # Never
            /\ cb[b].since_failure = Never => cb[b].failure_count = 0)
    /\ [][\A b \in Breakers :
            /\ (last_op'.name = "record_failure" /\ last_op'.b = b)
                  => /\ cb'[b].since_failure = 0
                     /\ cb'[b].state = "OPEN" => ~can_execute(cb'[b]).ret
            /\ cb'[b].since_failure # cb[b].since_failure
                  => \/ /\ last_op'.name = "record_failure"
                        /\ last_op'.b = b
                        /\ cb'[b].since_failure = 0
                     \/ /\ last_op' = NoOp
                        /\ cb[b].since_failure # Never
                        /\ cb'[b].since_failure = cb[b].since_failure + 1
         ]_vars

\* a call admitted earlier has failed again on a breaker that was OPEN with
\* its recovery window over: the window has restarted
C25_Witness ==
    \E b \in Breakers, c \in Calls :
        /\ last_op.name = "record_failure" /\ last_op.b = b /\ last_op.c = c
        /\ last_op.pre.state = "OPEN"
        /\ last_op.pre.since_failure > last_op.pre.recovery_timeout
        /\ call[c].attempt >= 1
        /\ cb[b].state = "OPEN"
        /\ cb[b].since_failure = 0
        /\ ~can_execute(cb[b]).ret

\* C27: the backoff of one call does not block the others: while a call is
\* suspended in its backoff, another call can enter (and be admitted by the
\* same breaker), its invocation can return or raise, and none of its steps
\* changes the frame of the suspended call, so it can reach a terminal outcome
\* before the first call resumes.
C27_BackoffDoesNotBlock ==
    /\ [](\A c, d \in Calls :
            (c # d /\ call[c].pc = "sleeping" /\ call[c].sleep_left > 0)
               => /\ call[d].pc = "idle" => ENABLED Enter(d)
                  /\ call[d].pc = "calling"
                        => /\ ENABLED OperationReturns(d)
                           /\ ENABLED OperationRaises(d))
    /\ [][\A c, d \in Calls :
            (c # d /\ call'[d].pc # call[d].pc) => call'[c] = call[c]
         ]_vars

\* while c is in its second backoff, after the failure that left the breaker
\* OPEN, d was admitted as the trial by the same breaker and has returned
C27_Witness ==
    \E c, d \in Calls :
        /\ c # d
        /\ Guarded(c) /\ Breaker(d) = Breaker(c)
        /\ call[c].pc = "sleeping" /\ call[c].sleep_left > 0
        /\ call[c].attempt = 1
        /\ call[d].pc = "returned" /\ call[d].invoked = <<0>>
        /\ last_op.name = "record_success" /\ last_op.c = d
        /\ last_op.pre.state = "HALF_OPEN"

\* a breaker on which no method has run since construction
Untouched(b) ==
    cb[b] = CircuitBreaker(cb[b].failure_threshold, cb[b].recovery_timeout)

\* C28: the two breakers are independent: a step of a call made with one
\* breaker leaves the other breaker's fields unchanged, and a breaker that no
\* call was made with is as constructed (state, failure_count and
\* last_failure_time), whatever happened on the other one; a step of a call
\* made with no breaker changes no breaker, and such a call is never rejected
\* with the circuit-open error; a call is rejected only by its own breaker.
C28_BreakersIndependent ==
    /\ [][\A c \in Calls : \A b \in AllBreakers :
            /\ (call'[c].pc # call[c].pc /\ call'[c].circuit_breaker # b)
                  => cb'[b] = cb[b] /\ streak'[b] = streak[b]
            /\ (call[c].pc = "idle" /\ call'[c].exc = CircuitOpen)
                  => /\ call'[c].circuit_breaker # None
                     /\ ~can_execute(cb[call'[c].circuit_breaker]).ret
         ]_vars
    /\ [](\A b \in AllBreakers :
            (\A c \in Calls : call[c].circuit_breaker # b) => Untouched(b))
    /\ [](\A c \in Calls :
            call[c].circuit_breaker = None => call[c].exc # CircuitOpen)

\* bedrock's breaker is OPEN after one call's three failures and rejects
\* nothing of polly's: the other call, made with polly's breaker meanwhile,
\* failed once and then returned, and polly's breaker is CLOSED with count 0
C28_Witness ==
    \E c, d \in Calls :
        /\ call[c].circuit_breaker = "bedrock_circuit_breaker"
        /\ call[c].pc = "raised" /\ Len(call[c].invoked) = 3
        /\ cb["bedrock_circuit_breaker"].state = "OPEN"
        /\ cb["bedrock_circuit_breaker"].failure_count = 3
        /\ call[d].circuit_breaker = "polly_circuit_breaker"
        /\ call[d].pc = "returned" /\ call[d].invoked = <<0, 1>>
        /\ cb["polly_circuit_breaker"].state = "CLOSED"
        /\ cb["polly_circuit_breaker"].failure_count = 0
        /\ cb["polly_circuit_breaker"].since_failure # Never

\* the number of invocations of c that have raised
Failures(c) ==
    IF call[c].last_exception.kind = "operation"
    THEN call[c].last_exception.attempt + 1
    ELSE 0

\* C29: every error the operation raises is treated alike: whatever its kind,
\* a failed invocation is recorded with record_failure() and is retried unless
\* it was the last allowed attempt, so no kind ends the loop early; two calls
\* that have failed the same number of times, with errors of whatever kinds,
\* and are past the handling of their latest failure have made the same
\* invocations and taken the same delays and stand at the same place.
C29_ErrorsTreatedAlike ==
    /\ [](\A c, d \in Calls :
            (/\ Failures(c) = Failures(d)
             /\ call[c].pc \in {"sleeping", "raised"}
             /\ call[d].pc \in {"sleeping", "raised"}
             /\ call[c].exc # CircuitOpen /\ call[d].exc # CircuitOpen)
               => /\ call[c].pc = call[d].pc
                  /\ call[c].invoked = call[d].invoked
                  /\ call[c].delays = call[d].delays)
    /\ [](\A c \in Calls :
            (call[c].pc = "raised" /\ call[c].exc.kind = "operation")
               => /\ Len(call[c].invoked) = call[c].max_retries + 1
                  /\ Len(call[c].delays) = call[c].max_retries)
    /\ [][\A c \in Calls : \A e \in ErrorKinds :
            (/\ call[c].pc = "calling"
             /\ call'[c].last_exception = Raises(e, call[c].attempt))
               => /\ call'[c].pc = IF call[c].attempt = call[c].max_retries
                                   THEN "raised" ELSE "sleeping"
                  /\ Guarded(c)
                        => /\ last_op' = Op("record_failure", c, Breaker(c),
                                            TRUE, cb[Breaker(c)])
                           /\ streak'[Breaker(c)] = streak[Breaker(c)] + 1
         ]_vars

\* one call's first invocation raised the permanent error, the other's the
\* transient one, and both are in the same first backoff
C29_Witness ==
    \E c, d \in Calls :
        /\ call[c].pc = "sleeping"
        /\ call[c].last_exception = Raises("ValidationException", 0)
        /\ call[d].pc = "sleeping"
        /\ call[d].last_exception = Raises("ServiceUnavailableException", 0)
        /\ call[c].delays = call[d].delays
        /\ Guarded(c) /\ Guarded(d)
        /\ cb[Breaker(c)].failure_count = 2

\* C26: recovery is always possible: a retry_with_backoff call entered while
\* the breaker is OPEN with more than recovery_timeout elapsed since
\* last_failure_time is admitted (as the trial: the breaker turns HALF_OPEN
\* and func is invoked); a call of the breaker whose invocation returns
\* leaves the breaker CLOSED with failure_count 0; and while requests keep
\* arriving for the breaker and the dependency stops failing, an OPEN breaker
\* does not stay OPEN forever: it becomes CLOSED with failure_count 0.
C26_RecoveryPossible ==
    /\ [][\A c \in Calls : \A b \in Breakers :
            /\ (/\ call[c].pc = "idle"
                /\ call'[c].pc # "idle"
                /\ call'[c].circuit_breaker = b
                /\ cb[b].state = "OPEN"
                /\ cb[b].since_failure # Never
                /\ cb[b].since_failure > cb[b].recovery_timeout)
                  => /\ call'[c].pc = "calling"
                     /\ call'[c].invoked = <<0>>
                     /\ cb'[b].state = "HALF_OPEN"
            /\ (/\ call[c].pc = "calling"
                /\ call'[c].pc = "returned"
                /\ call[c].circuit_breaker = b)
                  => cb'[b].state = "CLOSED" /\ cb'[b].failure_count = 0
         ]_vars
    /\ \A b \in Breakers :
          (cb[b].state = "OPEN")
             ~> (cb[b].state = "CLOSED" /\ cb[b].failure_count = 0)

\* a request that arrived after the timeout of an OPEN breaker was admitted
\* as the trial, its first invocation returned, and the breaker is CLOSED
C26_Witness ==
    \E c \in Calls : \E b \in Breakers :
        /\ call[c].circuit_breaker = b
        /\ call[c].pc = "returned" /\ call[c].invoked = <<0>>
        /\ last_op = Op("record_success", c, b, TRUE, last_op.pre)
        /\ last_op.pre.state = "HALF_OPEN"
        /\ last_op.pre.failure_count = MaxCount
        /\ cb[b].state = "CLOSED" /\ cb[b].failure_count = 0

====
